---- MODULE Spec2Model ----
(***************************************************************************)
(* Resumable batch migration engine of data-migration-supermarket:         *)
(* migrate() of migrate.py driving ProgressTracker of progress_tracker.py, *)
(* with the snapshot file on disk, process termination and resumed runs.   *)
(*                                                                         *)
(* Strings the program builds by concatenation (destination URLs, public   *)
(* ids, error texts) are sequences of their parts; '' is <<>>.             *)
(* The storage accepts every write that is not cut short by the death of   *)
(* the process, so the except branch of save_state is not taken.           *)
(***************************************************************************)
EXTENDS Integers, Sequences, FiniteSets, TLC

(* ------------------------------ bounds --------------------------------- *)
MaxRows == 3
MaxRuns == 2
LongRows == 11
MaxNoImage == 1
MaxBatch == 1
MaxEnvRows == 2
MaxCalls == 3
MaxAdapterRows == 2
MaxChunks == 3
MaxChunkRows == 2

(* --------------------------- program constants ------------------------- *)
AutoSaveInterval == 10
None == "<None>"

possible_names ==
    << "Image Link", "image_link", "ImageLink", "image_url", "Image URL",
       "ImageURL", "image", "Image", "url", "URL" >>

(* ------------------------------- rows ---------------------------------- *)
(* A row is the dict read_input_csv yields: column name -> cleaned value.  *)
RowA == ("Name" :> "Apple") @@ ("Image Link" :> "cdn/a.png")
RowB == ("Name" :> "Bread") @@ ("Image Link" :> "cdn/b.png")
RowN == ("Name" :> "Nut")
RowKinds == {RowA, RowB, RowN}
(* a row whose image reference is under another recognized column name *)
RowU == ("Name" :> "Ugli") @@ ("image_url" :> "cdn/u.png")
EnvRowKinds == {RowA, RowN, RowU}

LongRefs == << "cdn/u1.png", "cdn/u2.png", "cdn/u3.png", "cdn/u4.png",
               "cdn/u5.png", "cdn/u6.png", "cdn/u7.png", "cdn/u8.png",
               "cdn/u9.png", "cdn/u10.png", "cdn/u11.png", "cdn/u12.png",
               "cdn/u13.png" >>
LongIds == << "u1", "u2", "u3", "u4", "u5", "u6", "u7", "u8", "u9", "u10",
              "u11", "u12", "u13" >>
LongRow(k) == ("Name" :> "Item") @@ ("Image Link" :> LongRefs[k])

(* inputs up to the renaming of the two image references: RowB only after *)
(* a RowA                                                                  *)
Inputs ==
    {p \in UNION {[1..n -> RowKinds] : n \in 1..MaxRows} :
        \A k \in DOMAIN p : p[k] = RowB => \E j \in 1..(k - 1) : p[j] = RowA}
EnvInputs == UNION {[1..n -> EnvRowKinds] : n \in 1..MaxEnvRows}
(* long inputs: pairwise distinct image rows, a few rows without an image *)
LongInputs ==
    {[k \in 1..LongRows |-> IF k \in S THEN RowN ELSE LongRow(k)] :
        S \in {S \in SUBSET (1..LongRows) : Cardinality(S) <= MaxNoImage}}

(* str(product): the repr of the row dict *)
str(row) ==
    CASE row = RowN -> "{'Name': 'Nut'}"
      [] row = RowA -> "{'Name': 'Apple', 'Image Link': 'cdn/a.png'}"
      [] row = RowB -> "{'Name': 'Bread', 'Image Link': 'cdn/b.png'}"
      [] row = RowU -> "{'Name': 'Ugli', 'image_url': 'cdn/u.png'}"

RowGet(row, key) == IF key \in DOMAIN row THEN row[key] ELSE ""

(* mutant of FirstNonEmpty: a recognized column is taken even when empty *)
RECURSIVE FirstNonEmpty_present(_, _)
FirstNonEmpty_present(row, k) ==
    IF k > Len(possible_names) THEN None
    ELSE IF possible_names[k] \in DOMAIN row
         THEN row[possible_names[k]]
         ELSE FirstNonEmpty_present(row, k + 1)

RECURSIVE FirstNonEmpty(_, _)
FirstNonEmpty(row, k) ==
    IF k > Len(possible_names) THEN None
    ELSE IF possible_names[k] \in DOMAIN row /\ row[possible_names[k]] # ""
         THEN row[possible_names[k]]
         ELSE FirstNonEmpty(row, k + 1)

get_image_column(row) == FirstNonEmpty(row, 1)

(* filename of the path without its extension *)
extract_image_id_from_path(path) ==
    CASE path = "cdn/a.png" -> "a"
      [] path = "cdn/b.png" -> "b"
      [] path = "cdn/u.png" -> "u"
      [] OTHER -> LongIds[CHOOSE k \in 1..Len(LongRefs) : LongRefs[k] = path]

(* --------------------------- MigrationState ---------------------------- *)
MigrationState ==
    [ total_items |-> 0, processed_count |-> 0, success_count |-> 0,
      failed_count |-> 0, skipped_count |-> 0,
      processed_urls |-> <<>>, failed_items |-> <<>>, mappings |-> <<>> ]

(* the snapshot file: absent, a complete dump, or the partial text left by *)
(* open(..., 'w') and an unfinished json.dump                              *)
NoFile == [kind |-> "none"]
Partial == [kind |-> "partial"]
File(s) == [kind |-> "file", data |-> s]

(* A tracker value t is [state, disk]: the in-memory state and the file.  *)
save_state(t) == [t EXCEPT !.disk = File(t.state)]

(* mutant of load_state: the loaded state is not assigned to self.state *)
load_state_unassigned(t) ==
    IF t.disk.kind = "file" THEN [state |-> t.state, ok |-> TRUE]
    ELSE [state |-> t.state, ok |-> FALSE]

load_state(t) ==
    IF t.disk.kind = "none" THEN [state |-> t.state, ok |-> FALSE]
    ELSE IF t.disk.kind = "file" THEN [state |-> t.disk.data, ok |-> TRUE]
    ELSE [state |-> t.state, ok |-> FALSE]

set_total(t, total) == [t EXCEPT !.state.total_items = total]

(* mutant of is_processed: the membership test always misses *)
is_processed_never(t, url) == FALSE

is_processed(t, url) ==
    \E k \in 1..Len(t.state.processed_urls) : t.state.processed_urls[k] = url

(* mutant of mark_success: the periodic save is left out *)
mark_success_unsaved(t, url, new_url, image_id, metadata) ==
    LET mapping == [ old_url |-> url, new_url |-> new_url,
                     cloudflare_image_id |-> image_id,
                     status |-> "success", error |-> <<>>,
                     product_name |-> metadata.product_name,
                     main_category |-> metadata.main_category,
                     sub_category |-> metadata.sub_category ]
    IN  [t EXCEPT !.state.processed_urls = Append(@, url),
                  !.state.processed_count = @ + 1,
                  !.state.success_count = @ + 1,
                  !.state.mappings = Append(@, mapping)]

mark_success(t, url, new_url, image_id, metadata) ==
    LET mapping == [ old_url |-> url, new_url |-> new_url,
                     cloudflare_image_id |-> image_id,
                     status |-> "success", error |-> <<>>,
                     product_name |-> metadata.product_name,
                     main_category |-> metadata.main_category,
                     sub_category |-> metadata.sub_category ]
        t1 == [t EXCEPT !.state.processed_urls = Append(@, url),
                        !.state.processed_count = @ + 1,
                        !.state.success_count = @ + 1,
                        !.state.mappings = Append(@, mapping)]
    IN  IF t1.state.processed_count % AutoSaveInterval = 0
        THEN save_state(t1) ELSE t1

(* mutant of mark_failed: the reference is not added to processed_urls *)
mark_failed_untracked(t, url, error, metadata) ==
    LET failed_item == [ old_url |-> url, new_url |-> <<>>,
                         cloudflare_image_id |-> <<>>,
                         status |-> "failed", error |-> error,
                         product_name |-> metadata.product_name,
                         main_category |-> metadata.main_category,
                         sub_category |-> metadata.sub_category ]
        t1 == [t EXCEPT !.state.processed_count = @ + 1,
                        !.state.failed_count = @ + 1,
                        !.state.failed_items = Append(@, failed_item),
                        !.state.mappings = Append(@, failed_item)]
    IN  save_state(t1)

(* mutant of mark_failed: the record is not appended to failed_items *)
mark_failed_unlisted(t, url, error, metadata) ==
    LET failed_item == [ old_url |-> url, new_url |-> <<>>,
                         cloudflare_image_id |-> <<>>,
                         status |-> "failed", error |-> error,
                         product_name |-> metadata.product_name,
                         main_category |-> metadata.main_category,
                         sub_category |-> metadata.sub_category ]
        t1 == [t EXCEPT !.state.processed_urls = Append(@, url),
                        !.state.processed_count = @ + 1,
                        !.state.failed_count = @ + 1,
                        !.state.mappings = Append(@, failed_item)]
    IN  save_state(t1)

(* mutant of mark_failed: saves on the periodic schedule of mark_success *)
mark_failed_batched(t, url, error, metadata) ==
    LET failed_item == [ old_url |-> url, new_url |-> <<>>,
                         cloudflare_image_id |-> <<>>,
                         status |-> "failed", error |-> error,
                         product_name |-> metadata.product_name,
                         main_category |-> metadata.main_category,
                         sub_category |-> metadata.sub_category ]
        t1 == [t EXCEPT !.state.processed_urls = Append(@, url),
                        !.state.processed_count = @ + 1,
                        !.state.failed_count = @ + 1,
                        !.state.failed_items = Append(@, failed_item),
                        !.state.mappings = Append(@, failed_item)]
    IN  IF t1.state.processed_count % AutoSaveInterval = 0
        THEN save_state(t1) ELSE t1

mark_failed(t, url, error, metadata) ==
    LET failed_item == [ old_url |-> url, new_url |-> <<>>,
                         cloudflare_image_id |-> <<>>,
                         status |-> "failed", error |-> error,
                         product_name |-> metadata.product_name,
                         main_category |-> metadata.main_category,
                         sub_category |-> metadata.sub_category ]
        t1 == [t EXCEPT !.state.processed_urls = Append(@, url),
                        !.state.processed_count = @ + 1,
                        !.state.failed_count = @ + 1,
                        !.state.failed_items = Append(@, failed_item),
                        !.state.mappings = Append(@, failed_item)]
    IN  save_state(t1)

(* mutant of mark_skipped: skipped_count is not incremented *)
mark_skipped_uncounted(t, url, reason) ==
    [t EXCEPT !.state.processed_urls = Append(@, url),
              !.state.processed_count = @ + 1]

(* mutant of mark_skipped: the skip is recorded in mappings like a failure *)
mark_skipped_recorded(t, url, reason) ==
    [t EXCEPT !.state.processed_urls = Append(@, url),
              !.state.processed_count = @ + 1,
              !.state.skipped_count = @ + 1,
              !.state.mappings =
                  Append(@, [ old_url |-> url, new_url |-> <<>>,
                              cloudflare_image_id |-> <<>>,
                              status |-> "skipped", error |-> <<reason>>,
                              product_name |-> "", main_category |-> "",
                              sub_category |-> "" ])]

mark_skipped(t, url, reason) ==
    [t EXCEPT !.state.processed_urls = Append(@, url),
              !.state.processed_count = @ + 1,
              !.state.skipped_count = @ + 1]

(* mutant of reset: the snapshot file is left in place *)
reset_keeps_file(t) == [state |-> MigrationState, disk |-> t.disk]

reset(t) == [state |-> MigrationState, disk |-> NoFile]

(* ----------------------------- the adapter ----------------------------- *)
(* What the engine sees of one item's fetch/publish: the upload result, a  *)
(* DownloadError or CloudinaryUploadError, or any other exception.         *)
AdapterResults == {"ok", "recognized", "unexpected"}
LongResults == {"ok", "recognized"}

folder == "product-images"
message == "rejected"
Sentinel == <<"PENDING/FAILED">>

generate_url_like_grofers(public_id) ==
    <<"https://res.cloudinary.com", "cloud_name", "image/upload",
      "w_270,q_70,f_auto,c_scale">> \o public_id

sample_url(image_id) ==
    <<"[DRY RUN] ",
      "https://res.cloudinary.com/CLOUD/image/upload/w_270,q_70,f_auto,c_scale/product-images",
      image_id>>

(* ------------------------------ the engine ----------------------------- *)
VARIABLES
    products,      \* the rows of the input file
    disk,          \* the snapshot file migration_state.json
    state,         \* tracker.state of the running process
    pc,            \* "idle", "loop" (inside the for loop), "done"
    i,             \* index of the next row of the loop
    opts,          \* the arguments of the current migrate() call
    run,           \* number of migrate() calls so far
    loaded,        \* what load_state returned in this run
    mapping_file,  \* the mapping CSV
    final_file,    \* the reconciled CSV
    exit_code,     \* the value migrate() returned
    env,           \* what the current run finds: "ok", "no_creds", "no_conn",
                   \* "no_input" (input file unreadable), "no_merge" (input
                   \* file unreadable when the reconciled CSV is written)
    call,          \* the fetch/publish of the current item: its stage, the
                   \* adapter function, the events of its attempts and the
                   \* exception it ended with
    probe,         \* a function applied on its own: name, argument, result
    downloads,     \* the downloads directory: the references whose file is
                   \* the complete body, and those whose file is cut short
    adapterRuns,   \* history: <<url, run>> for each adapter call
    failedSaved,   \* history of the runs of migrate(): the references whose
                   \* failed record was in a complete snapshot since the
                   \* last reset
    crashed,       \* history: a run of the current chain was killed
    last,          \* history: what the last step did
    streak         \* history: mark_success calls since another mark call

vars == << products, disk, state, pc, i, opts, run, loaded, mapping_file,
           final_file, exit_code, env, call, probe, downloads, adapterRuns,
           failedSaved, crashed, last, streak >>

NoCall == [stage |-> "idle"]
NoProbe == [fn |-> "none"]
NoDownloads == [complete |-> {}, partial |-> {}]

(* the references with a failed record in the snapshot file d *)
FailedOn(d) ==
    IF d.kind = "file"
    THEN {d.data.failed_items[k].old_url : k \in 1..Len(d.data.failed_items)}
    ELSE {}

T == [state |-> state, disk |-> disk]

NoOpts == [resume |-> FALSE, dry_run |-> FALSE, batch_size |-> 0,
           upload_from_url |-> FALSE]

(* products[:batch_size] when batch_size is truthy *)
Limit(o, rows) ==
    IF o.batch_size # 0 /\ o.batch_size < Len(rows) THEN o.batch_size
    ELSE Len(rows)

Metadata(product) ==
    [ product_name |-> RowGet(product, "Name"),
      main_category |-> RowGet(product, "Main Category"),
      sub_category |-> RowGet(product, "Sub Category") ]

(* mutant of Iteration: a dry run goes on to the adapter *)
Iteration_dry_live(t, product, o, res) ==
    LET image_url == get_image_column(product)
        image_id == extract_image_id_from_path(image_url)
        public_id == <<folder, image_id>>
    IN  IF image_url = None \/ image_url = ""
        THEN [t |-> mark_skipped(t, str(product), "No image URL"),
              kind |-> "skipped", called |-> FALSE]
        ELSE IF is_processed(t, image_url)
        THEN [t |-> t, kind |-> "already", called |-> FALSE]
        ELSE IF res = "ok"
        THEN [t |-> mark_success(t, image_url,
                                 generate_url_like_grofers(public_id),
                                 public_id, Metadata(product)),
              kind |-> "success", called |-> TRUE]
        ELSE IF res = "recognized"
        THEN [t |-> mark_failed(t, image_url, <<message>>, Metadata(product)),
              kind |-> "failed", called |-> TRUE]
        ELSE [t |-> mark_failed(t, image_url, <<"Unexpected error: ", message>>,
                                Metadata(product)),
              kind |-> "failed", called |-> TRUE]

(* mutant of Iteration: an unrecognized exception is caught and dropped *)
Iteration_swallow(t, product, o, res) ==
    LET image_url == get_image_column(product)
        image_id == extract_image_id_from_path(image_url)
        public_id == <<folder, image_id>>
    IN  IF image_url = None \/ image_url = ""
        THEN [t |-> mark_skipped(t, str(product), "No image URL"),
              kind |-> "skipped", called |-> FALSE]
        ELSE IF is_processed(t, image_url)
        THEN [t |-> t, kind |-> "already", called |-> FALSE]
        ELSE IF o.dry_run
        THEN [t |-> mark_success(t, image_url, sample_url(image_id),
                                 <<image_id>>, Metadata(product)),
              kind |-> "success", called |-> FALSE]
        ELSE IF res = "ok"
        THEN [t |-> mark_success(t, image_url,
                                 generate_url_like_grofers(public_id),
                                 public_id, Metadata(product)),
              kind |-> "success", called |-> TRUE]
        ELSE IF res = "recognized"
        THEN [t |-> mark_failed(t, image_url, <<message>>, Metadata(product)),
              kind |-> "failed", called |-> TRUE]
        ELSE [t |-> t, kind |-> "failed", called |-> TRUE]

(* One iteration of the for loop: the tracker afterwards, the branch taken *)
(* and whether the adapter was called.                                     *)
Iteration(t, product, o, res) ==
    LET image_url == get_image_column(product)
        image_id == extract_image_id_from_path(image_url)
        public_id == <<folder, image_id>>
    IN  IF image_url = None \/ image_url = ""
        THEN [t |-> mark_skipped(t, str(product), "No image URL"),
              kind |-> "skipped", called |-> FALSE]
        ELSE IF is_processed(t, image_url)
        THEN [t |-> t, kind |-> "already", called |-> FALSE]
        ELSE IF o.dry_run
        THEN [t |-> mark_success(t, image_url, sample_url(image_id),
                                 <<image_id>>, Metadata(product)),
              kind |-> "success", called |-> FALSE]
        ELSE IF res = "ok"
        THEN [t |-> mark_success(t, image_url,
                                 generate_url_like_grofers(public_id),
                                 public_id, Metadata(product)),
              kind |-> "success", called |-> TRUE]
        ELSE IF res = "recognized"
        THEN [t |-> mark_failed(t, image_url, <<message>>, Metadata(product)),
              kind |-> "failed", called |-> TRUE]
        ELSE [t |-> mark_failed(t, image_url, <<"Unexpected error: ", message>>,
                                Metadata(product)),
              kind |-> "failed", called |-> TRUE]

write_mapping_csv(mappings, old) ==
    IF mappings = <<>> THEN old ELSE [kind |-> "file", rows |-> mappings]

(* {old_url: new_url} over the success records: the last one wins *)
Lookup(mappings, url) ==
    LET hits == {k \in 1..Len(mappings) :
                    mappings[k].status = "success" /\ mappings[k].old_url = url}
    IN  IF hits = {} THEN Sentinel
        ELSE mappings[CHOOSE k \in hits : \A j \in hits : j <= k].new_url

Reconcile(rows, mappings) ==
    [k \in 1..Len(rows) |->
        [row |-> rows[k],
         new_image_link |-> Lookup(mappings, RowGet(rows[k], "Image Link"))]]

CanStart == pc \in {"idle", "done"} /\ run < MaxRuns

Environments == {"ok", "no_creds", "no_conn", "no_input", "no_merge"}

(* mutant of validate_config: the dry-run shortcut is left out *)
validate_config_strict(e, dry_run) == e # "no_creds"

(* validate_config and test_connection: both skipped in a dry run *)
validate_config(e, dry_run) == dry_run \/ e # "no_creds"
test_connection(e) == e # "no_conn"
ConfigOk(e, dry_run) ==
    validate_config(e, dry_run) /\ (dry_run \/ test_connection(e))

(* migrate() up to the for loop, in environment e, when none of the early  *)
(* returns is taken                                                        *)
Begin(e, resume, dry_run, batch_size, upload_from_url) ==
    /\ CanStart
    /\ ConfigOk(e, dry_run)
    /\ e # "no_input"
    /\ env' = e
    /\ LET fresh == [state |-> MigrationState, disk |-> disk]
           got == IF resume THEN load_state(fresh)
                  ELSE [state |-> reset(fresh).state, ok |-> FALSE]
           t0 == [state |-> got.state,
                  disk |-> IF resume THEN disk ELSE reset(fresh).disk]
           t1 == set_total(t0, Len(products))
       IN  /\ state' = t1.state
           /\ disk' = t1.disk
           /\ loaded' = got.ok
    /\ opts' = [resume |-> resume, dry_run |-> dry_run,
                batch_size |-> batch_size, upload_from_url |-> upload_from_url]
    /\ pc' = "loop"
    /\ i' = 1
    /\ run' = run + 1
    /\ adapterRuns' = IF resume THEN adapterRuns ELSE {}
    /\ crashed' = IF resume THEN crashed ELSE FALSE
    /\ last' = "start"
    /\ streak' = 0
    /\ UNCHANGED << products, downloads, call, probe,
                    mapping_file, final_file, exit_code >>
    /\ failedSaved' = (IF resume THEN failedSaved ELSE {}) \cup FailedOn(disk')

(* a run whose configuration, connection test and input file are in order *)
StartRun(resume, dry_run, batch_size, upload_from_url) ==
    Begin("ok", resume, dry_run, batch_size, upload_from_url)

(* validate_config or test_connection fails: return 1 before the tracker   *)
(* is built                                                                *)
AbortConfig(e, resume, dry_run, batch_size, upload_from_url) ==
    /\ CanStart
    /\ ~ConfigOk(e, dry_run)
    /\ env' = e
    /\ opts' = [resume |-> resume, dry_run |-> dry_run,
                batch_size |-> batch_size, upload_from_url |-> upload_from_url]
    /\ exit_code' = 1
    /\ pc' = "done"
    /\ i' = 0
    /\ run' = run + 1
    /\ state' = MigrationState
    /\ loaded' = FALSE
    /\ last' = "abort_config"
    /\ streak' = 0
    /\ UNCHANGED << products, downloads, call, probe,
                    disk, mapping_file, final_file, adapterRuns,
                    crashed >>
    /\ UNCHANGED failedSaved

(* read_input_csv raises: return 1 after the tracker was loaded or reset *)
AbortInput(e, resume, dry_run, batch_size, upload_from_url) ==
    /\ CanStart
    /\ ConfigOk(e, dry_run)
    /\ e = "no_input"
    /\ env' = e
    /\ LET fresh == [state |-> MigrationState, disk |-> disk]
           got == IF resume THEN load_state(fresh)
                  ELSE [state |-> reset(fresh).state, ok |-> FALSE]
       IN  /\ state' = got.state
           /\ disk' = IF resume THEN disk ELSE reset(fresh).disk
           /\ loaded' = got.ok
    /\ opts' = [resume |-> resume, dry_run |-> dry_run,
                batch_size |-> batch_size, upload_from_url |-> upload_from_url]
    /\ exit_code' = 1
    /\ pc' = "done"
    /\ i' = 0
    /\ run' = run + 1
    /\ adapterRuns' = IF resume THEN adapterRuns ELSE {}
    /\ crashed' = IF resume THEN crashed ELSE FALSE
    /\ last' = "abort_input"
    /\ streak' = 0
    /\ UNCHANGED << products, downloads, call, probe,
                    mapping_file, final_file >>
    /\ failedSaved' = (IF resume THEN failedSaved ELSE {}) \cup FailedOn(disk')

(* one pass of the for loop over products[i] *)
ProcessItem(results) ==
    /\ pc = "loop"
    /\ i <= Limit(opts, products)
    /\ \E res \in results :
         \E it \in {Iteration(T, products[i], opts, res)} :
         LET url == get_image_column(products[i])
         IN  /\ state' = it.t.state
             /\ disk' = it.t.disk
             /\ last' = it.kind
             /\ adapterRuns' = IF it.called
                               THEN adapterRuns \cup {<<url, run>>}
                               ELSE adapterRuns
             /\ streak' = IF it.kind = "success" THEN streak + 1
                          ELSE IF it.kind = "already" THEN streak ELSE 0
    /\ i' = i + 1
    /\ UNCHANGED << products, downloads, call, probe,
                    pc, opts, run, loaded, mapping_file, final_file,
                    exit_code, env, crashed >>
    /\ failedSaved' = failedSaved \cup FailedOn(disk')

(* mutant of ExitCode: a failed reconciliation makes the run fail *)
ExitCode_merge(failed_count, e) ==
    IF failed_count = 0 /\ e # "no_merge" THEN 0 ELSE 1

(* mutant of ExitCode: the run always reports success *)
ExitCode_zero(failed_count, e) == 0

(* return 0 if tracker.state.failed_count == 0 else 1 *)
ExitCode(failed_count, e) == IF failed_count = 0 THEN 0 ELSE 1

(* migrate() after the for loop *)
Finish ==
    /\ pc = "loop"
    /\ i > Limit(opts, products)
    /\ mapping_file' = write_mapping_csv(state.mappings, mapping_file)
    /\ IF env = "no_merge"
       THEN \* open(input_file) or a later read raises: the except branch
            final_file' \in {final_file, [kind |-> "partial"]}
       ELSE final_file' = [kind |-> "file",
                           rows |-> Reconcile(products, state.mappings)]
    /\ exit_code' = ExitCode(state.failed_count, env)
    /\ pc' = "done"
    /\ last' = "finish"
    /\ UNCHANGED << products, downloads, call, probe,
                    disk, state, i, opts, run, loaded, env,
                    adapterRuns, crashed, streak >>
    /\ UNCHANGED failedSaved

(* the process is terminated between two passes of the loop *)
Kill ==
    /\ pc = "loop"
    /\ pc' = "idle"
    /\ state' = MigrationState
    /\ crashed' = TRUE
    /\ last' = "kill"
    /\ i' = 0
    /\ opts' = NoOpts
    /\ loaded' = FALSE
    /\ streak' = 0
    /\ UNCHANGED << products, downloads, call, probe,
                    disk, run, mapping_file, final_file, exit_code,
                    env, adapterRuns >>
    /\ UNCHANGED failedSaved

(* the process is terminated inside save_state, after open(state_file,     *)
(* 'w') emptied the file and before json.dump wrote all of it              *)
KillDuringSave ==
    /\ pc = "loop"
    /\ i <= Limit(opts, products)
    /\ \E res \in AdapterResults :
         LET it == Iteration(T, products[i], opts, res)
             url == get_image_column(products[i])
         IN  /\ it.t.disk # disk
             /\ adapterRuns' = IF it.called
                               THEN adapterRuns \cup {<<url, run>>}
                               ELSE adapterRuns
    /\ disk' = Partial
    /\ pc' = "idle"
    /\ state' = MigrationState
    /\ crashed' = TRUE
    /\ last' = "kill_in_save"
    /\ i' = 0
    /\ opts' = NoOpts
    /\ loaded' = FALSE
    /\ streak' = 0
    /\ UNCHANGED << products, downloads, call, probe,
                    run, mapping_file, final_file, exit_code,
                    env >>
    /\ failedSaved' = failedSaved \cup FailedOn(disk')

Init ==
    /\ products \in Inputs
    /\ disk = NoFile
    /\ state = MigrationState
    /\ pc = "idle"
    /\ i = 0
    /\ opts = NoOpts
    /\ run = 0
    /\ loaded = FALSE
    /\ mapping_file = [kind |-> "none"]
    /\ final_file = [kind |-> "none"]
    /\ exit_code = 0
    /\ env = "ok"
    /\ call = NoCall
    /\ probe = NoProbe
    /\ downloads = NoDownloads
    /\ adapterRuns = {}
    /\ failedSaved = {}
    /\ crashed = FALSE
    /\ last = "none"
    /\ streak = 0

Next ==
    \/ \E resume \in BOOLEAN, dry_run \in BOOLEAN, batch_size \in 0..MaxBatch :
          StartRun(resume, dry_run, batch_size, FALSE)
    \/ ProcessItem(AdapterResults)
    \/ Finish
    \/ Kill
    \/ KillDuringSave

Spec == Init /\ [][Next]_vars

(* A single full live run over a long input of distinct image rows.        *)
InitLong ==
    /\ products \in LongInputs
    /\ disk = NoFile
    /\ state = MigrationState
    /\ pc = "idle"
    /\ i = 0
    /\ opts = NoOpts
    /\ run = 0
    /\ loaded = FALSE
    /\ mapping_file = [kind |-> "none"]
    /\ final_file = [kind |-> "none"]
    /\ exit_code = 0
    /\ env = "ok"
    /\ call = NoCall
    /\ probe = NoProbe
    /\ downloads = NoDownloads
    /\ adapterRuns = {}
    /\ failedSaved = {}
    /\ crashed = FALSE
    /\ last = "none"
    /\ streak = 0

NextLong ==
    \/ (run = 0 /\ StartRun(FALSE, FALSE, 0, FALSE))
    \/ ProcessItem(LongResults)
    \/ Finish

SpecLong == InitLong /\ [][NextLong]_vars

(* Runs over the long input, each a dry run or a live one, fresh or        *)
(* resumed, in which every upload of a live pass succeeds: a dry run       *)
(* reaches the periodic save of mark_success.                              *)
NextDry ==
    \/ \E resume \in BOOLEAN, dry_run \in BOOLEAN :
         StartRun(resume, dry_run, 0, FALSE)
    \/ ProcessItem({"ok"})
    \/ Finish

SpecDry == InitLong /\ [][NextDry]_vars

(* Runs in every environment: configuration, connection and input errors,  *)
(* a failing reconciliation; no process termination.                       *)
InitEnv ==
    /\ products \in EnvInputs
    /\ disk = NoFile
    /\ state = MigrationState
    /\ pc = "idle"
    /\ i = 0
    /\ opts = NoOpts
    /\ run = 0
    /\ loaded = FALSE
    /\ mapping_file = [kind |-> "none"]
    /\ final_file = [kind |-> "none"]
    /\ exit_code = 0
    /\ env = "ok"
    /\ call = NoCall
    /\ probe = NoProbe
    /\ downloads = NoDownloads
    /\ adapterRuns = {}
    /\ failedSaved = {}
    /\ crashed = FALSE
    /\ last = "none"
    /\ streak = 0

NextEnv ==
    \/ \E e \in Environments, resume \in BOOLEAN, dry_run \in BOOLEAN :
          Begin(e, resume, dry_run, 0, FALSE)
    \/ \E e \in Environments, resume \in BOOLEAN, dry_run \in BOOLEAN :
          AbortConfig(e, resume, dry_run, 0, FALSE)
    \/ \E e \in Environments, resume \in BOOLEAN, dry_run \in BOOLEAN :
          AbortInput(e, resume, dry_run, 0, FALSE)
    \/ ProcessItem(AdapterResults)
    \/ Finish

SpecEnv == InitEnv /\ [][NextEnv]_vars

(* The ProgressTracker class on its own: any sequence of its public calls  *)
(* on one state path, new tracker objects and a damaged snapshot included. *)
TrackerFrame ==
    UNCHANGED << products, downloads, failedSaved, call, probe,
                 pc, i, opts, run, loaded, mapping_file, final_file,
                 exit_code, env, adapterRuns, crashed, streak >>

CanMark == state.processed_count < MaxCalls

TMarkSuccess ==
    /\ CanMark
    /\ LET t == mark_success(T, get_image_column(RowA),
                             generate_url_like_grofers(<<folder, "a">>),
                             <<folder, "a">>, Metadata(RowA))
       IN  state' = t.state /\ disk' = t.disk
    /\ last' = "success"
    /\ TrackerFrame

TMarkFailed ==
    /\ CanMark
    /\ LET t == mark_failed(T, get_image_column(RowA), <<message>>,
                            Metadata(RowA))
       IN  state' = t.state /\ disk' = t.disk
    /\ last' = "failed"
    /\ TrackerFrame

TMarkSkipped ==
    /\ CanMark
    /\ LET t == mark_skipped(T, str(RowN), "No image URL")
       IN  state' = t.state /\ disk' = t.disk
    /\ last' = "skipped"
    /\ TrackerFrame

TSetTotal ==
    /\ state' = set_total(T, MaxCalls).state
    /\ last' = "set_total"
    /\ UNCHANGED disk
    /\ TrackerFrame

TSave ==
    /\ disk' = save_state(T).disk
    /\ last' = "save"
    /\ UNCHANGED state
    /\ TrackerFrame

TLoad ==
    /\ state' = load_state(T).state
    /\ last' = IF load_state(T).ok THEN "load_true" ELSE "load_false"
    /\ UNCHANGED disk
    /\ TrackerFrame

TReset ==
    /\ state' = reset(T).state
    /\ disk' = reset(T).disk
    /\ last' = "reset"
    /\ TrackerFrame

(* ProgressTracker(state_dir, input_file): a new object on the same path *)
TNew ==
    /\ state' = MigrationState
    /\ last' = "new"
    /\ UNCHANGED disk
    /\ TrackerFrame

(* the snapshot is left partial by a save that was cut short *)
TCorrupt ==
    /\ disk.kind = "file"
    /\ disk' = Partial
    /\ last' = "corrupt"
    /\ UNCHANGED state
    /\ TrackerFrame

InitTracker ==
    /\ products = <<RowA, RowN>>
    /\ disk = NoFile
    /\ state = MigrationState
    /\ pc = "idle"
    /\ i = 0
    /\ opts = NoOpts
    /\ run = 0
    /\ loaded = FALSE
    /\ mapping_file = [kind |-> "none"]
    /\ final_file = [kind |-> "none"]
    /\ exit_code = 0
    /\ env = "ok"
    /\ call = NoCall
    /\ probe = NoProbe
    /\ downloads = NoDownloads
    /\ adapterRuns = {}
    /\ failedSaved = {}
    /\ crashed = FALSE
    /\ last = "none"
    /\ streak = 0

NextTracker ==
    \/ TMarkSuccess
    \/ TMarkFailed
    \/ TMarkSkipped
    \/ TSetTotal
    \/ TSave
    \/ TLoad
    \/ TReset
    \/ TNew
    \/ TCorrupt

SpecTracker == InitTracker /\ [][NextTracker]_vars

(* ------------------- fetch and publish with retries -------------------- *)
(* One execution of an adapter function body meets one event of the        *)
(* network, the CDN or the file system; it returns or raises an exception  *)
(* class.                                                                  *)
MAX_RETRIES == 3

ExceptionClasses ==
    {"RequestException", "DownloadError", "CloudinaryUploadError",
     "FileNotFoundError", "OSError", "RetryError"}
DownloadRetried == {"RequestException", "DownloadError"}
UploadRetried == ExceptionClasses

DownloadEvents == {"image", "request_error", "not_image", "empty", "os_error"}
UploadEvents == {"uploaded", "network", "rejected", "missing_file"}
UrlUploadEvents == {"uploaded", "network", "rejected"}

(* @retry(stop=stop_after_attempt(MAX_RETRIES), retry=                     *)
(* retry_if_exception_type(types)) without reraise: attempts[k] is what    *)
(* the k-th execution of the body does, "return" or the class it raises.   *)
(* n executions are made; the caller sees raised, the last body raised     *)
(* cause.                                                                  *)
RECURSIVE retry(_, _, _)
retry(attempts, types, k) ==
    IF attempts[k] = "return"
    THEN [n |-> k, raised |-> "none", cause |-> "none"]
    ELSE IF attempts[k] \notin types
    THEN [n |-> k, raised |-> attempts[k], cause |-> attempts[k]]
    ELSE IF k >= MAX_RETRIES
    THEN [n |-> k, raised |-> "RetryError", cause |-> attempts[k]]
    ELSE retry(attempts, types, k + 1)

(* the body of download_image with use_original_url=False *)
download_body(event) ==
    CASE event = "image" -> "return"
      [] event = "request_error" -> "DownloadError"
      [] event = "not_image" -> "DownloadError"
      [] event = "empty" -> "DownloadError"
      [] event = "os_error" -> "OSError"

(* download_image(url, save_dir, filename): orig[k] is the event of the    *)
(* k-th request for the original URL, trans[k] of the k-th request for the *)
(* transformed one, which a non-image answer to the original URL falls     *)
(* back to through the decorated function itself.                          *)
download_image(orig, trans) ==
    LET inner == retry([k \in 1..MAX_RETRIES |-> download_body(trans[k])],
                       DownloadRetried, 1)
        body == [k \in 1..MAX_RETRIES |->
                    IF orig[k] = "not_image"
                    THEN IF inner.raised = "none" THEN "return"
                         ELSE inner.raised
                    ELSE download_body(orig[k])]
        outer == retry(body, DownloadRetried, 1)
        fell == orig[outer.n] = "not_image"
    IN  [fn |-> "download_image",
         events |-> SubSeq(orig, 1, outer.n) \o
                    (IF fell THEN SubSeq(trans, 1, inner.n) ELSE <<>>),
         raised |-> outer.raised,
         cause |-> IF fell THEN inner.cause ELSE outer.cause]

upload_body(event) ==
    CASE event = "uploaded" -> "return"
      [] event = "missing_file" -> "FileNotFoundError"
      [] event = "rejected" -> "CloudinaryUploadError"
      [] event = "network" -> "CloudinaryUploadError"

upload_image(events) ==
    LET out == retry([k \in 1..MAX_RETRIES |-> upload_body(events[k])],
                     UploadRetried, 1)
    IN  [fn |-> "upload_image", events |-> SubSeq(events, 1, out.n),
         raised |-> out.raised, cause |-> out.cause]

(* upload_from_url carries no retry decorator *)
upload_from_url(event) ==
    [fn |-> "upload_from_url", events |-> <<event>>,
     raised |-> IF event = "uploaded" THEN "none" ELSE "CloudinaryUploadError",
     cause |-> IF event = "uploaded" THEN "none" ELSE "CloudinaryUploadError"]

(* the except clauses of the loop body *)
Seen(raised) ==
    IF raised = "none" THEN "ok"
    ELSE IF raised \in {"DownloadError", "CloudinaryUploadError"}
    THEN "recognized"
    ELSE "unexpected"

(* the call as the loop body holds it: its stage and the file it works on *)
Staged(stage, c, file) ==
    [stage |-> stage, fn |-> c.fn, events |-> c.events, raised |-> c.raised,
     cause |-> c.cause, file |-> file]

(* every course one call of each adapter function can take *)
DownloadCalls ==
    {download_image(orig, trans) :
        orig \in [1..MAX_RETRIES -> DownloadEvents],
        trans \in [1..MAX_RETRIES -> DownloadEvents]}
UploadCalls == {upload_image(events) : events \in [1..MAX_RETRIES -> UploadEvents]}
UrlUploadCalls == {upload_from_url(event) : event \in UrlUploadEvents}

AdapterInputs == {p \in Inputs : Len(p) <= MaxAdapterRows}

(* the current row reaches the try block of a live run *)
NeedsAdapter ==
    /\ pc = "loop"
    /\ i <= Limit(opts, products)
    /\ get_image_column(products[i]) # None
    /\ ~is_processed(T, get_image_column(products[i]))
    /\ ~opts.dry_run

AdapterFrame ==
    UNCHANGED << products, failedSaved, probe, disk, state, pc, i, opts, run,
                 loaded, mapping_file, final_file, exit_code, env,
                 adapterRuns, crashed, last, streak >>

(* os.path.exists(save_path) and os.path.getsize(save_path) > 0 *)
FileOf(url) ==
    IF url \in downloads.complete THEN "complete"
    ELSE IF url \in downloads.partial THEN "partial"
    ELSE "none"

(* what a course of download_image leaves at save_path: the body when it   *)
(* returned, nothing when the request failed or was cleaned up, the bytes  *)
(* written so far when another exception ended the write loop              *)
FilesAfter(c) ==
    IF c.raised = "none" THEN {"complete"}
    ELSE IF c.events[Len(c.events)] = "os_error" THEN {"none", "partial"}
    ELSE {"none"}

Stored(url, file) ==
    [complete |-> IF file = "complete" THEN downloads.complete \cup {url}
                  ELSE downloads.complete \ {url},
     partial |-> IF file = "partial" THEN downloads.partial \cup {url}
                 ELSE downloads.partial \ {url}]

(* the courses of a download_image call that makes requests, each with    *)
(* the file it leaves                                                      *)
FetchCourses ==
    UNION {{Staged(IF c.raised = "none" THEN "fetched" ELSE "raised", c, file) :
               file \in FilesAfter(c)} : c \in DownloadCalls}

(* download_image(image_url, DOWNLOADS_DIR, image_id): an existing         *)
(* non-empty file is returned without a request                            *)
Fetch ==
    /\ NeedsAdapter
    /\ call.stage = "idle"
    /\ ~opts.upload_from_url
    /\ LET url == get_image_column(products[i])
       IN  IF FileOf(url) # "none"
           THEN /\ call' = [stage |-> "fetched", fn |-> "download_image",
                            events |-> <<>>, raised |-> "none",
                            cause |-> "none", file |-> FileOf(url)]
                /\ UNCHANGED downloads
           ELSE /\ call' \in FetchCourses
                /\ downloads' = Stored(url, call'.file)
    /\ AdapterFrame

(* if not validate_image(local_path): raise DownloadError *)
Validate ==
    /\ call.stage = "fetched"
    /\ \E valid \in BOOLEAN :
          call' = IF valid THEN [stage |-> "valid", file |-> call.file]
                  ELSE [stage |-> "raised", fn |-> "validate_image",
                        events |-> <<"invalid">>, raised |-> "DownloadError",
                        cause |-> "DownloadError", file |-> call.file]
    /\ UNCHANGED downloads
    /\ AdapterFrame

(* uploader.upload_image(local_path, public_id=image_id, ...) *)
Upload ==
    /\ call.stage = "valid"
    /\ \E c \in UploadCalls :
          call' = Staged(IF c.raised = "none" THEN "returned" ELSE "raised",
                         c, call.file)
    /\ UNCHANGED downloads
    /\ AdapterFrame

(* uploader.upload_from_url(image_url, public_id=image_id, ...) *)
UploadFromUrl ==
    /\ NeedsAdapter
    /\ call.stage = "idle"
    /\ opts.upload_from_url
    /\ \E c \in UrlUploadCalls :
          call' = Staged(IF c.raised = "none" THEN "returned" ELSE "raised",
                         c, "none")
    /\ UNCHANGED downloads
    /\ AdapterFrame

(* the rest of the loop pass: mark_success or one of the except clauses *)
Record ==
    /\ call.stage \in {"returned", "raised"}
    /\ \E it \in {Iteration(T, products[i], opts, Seen(call.raised))} :
           /\ state' = it.t.state
           /\ disk' = it.t.disk
           /\ last' = it.kind
           /\ streak' = IF it.kind = "success" THEN streak + 1 ELSE 0
    /\ adapterRuns' = adapterRuns \cup {<<get_image_column(products[i]), run>>}
    /\ i' = i + 1
    /\ call' = NoCall
    /\ UNCHANGED << products, downloads, probe, pc, opts, run, loaded,
                    mapping_file, final_file, exit_code, env, crashed >>
    /\ failedSaved' = failedSaved \cup FailedOn(disk')

(* a loop pass that does not reach the try block *)
PassWithoutCall ==
    /\ ~NeedsAdapter
    /\ ProcessItem({"ok"})

InitAdapter ==
    /\ products \in AdapterInputs
    /\ disk = NoFile
    /\ state = MigrationState
    /\ pc = "idle"
    /\ i = 0
    /\ opts = NoOpts
    /\ run = 0
    /\ loaded = FALSE
    /\ mapping_file = [kind |-> "none"]
    /\ final_file = [kind |-> "none"]
    /\ exit_code = 0
    /\ env = "ok"
    /\ call = NoCall
    /\ probe = NoProbe
    /\ downloads = NoDownloads
    /\ adapterRuns = {}
    /\ failedSaved = {}
    /\ crashed = FALSE
    /\ last = "none"
    /\ streak = 0

NextAdapter ==
    \/ \E resume \in BOOLEAN, upload \in BOOLEAN :
          StartRun(resume, FALSE, 0, upload)
    \/ Fetch
    \/ Validate
    \/ Upload
    \/ UploadFromUrl
    \/ Record
    \/ PassWithoutCall
    \/ Finish

SpecAdapter == InitAdapter /\ [][NextAdapter]_vars

(* the process is terminated inside the write loop of download_image,      *)
(* after some chunks of the body were written to save_path                 *)
KillInDownload ==
    /\ NeedsAdapter
    /\ call.stage = "idle"
    /\ ~opts.upload_from_url
    /\ LET url == get_image_column(products[i])
       IN  /\ FileOf(url) = "none"
           /\ downloads' = Stored(url, "partial")
           /\ adapterRuns' = adapterRuns \cup {<<url, run>>}
    /\ pc' = "idle"
    /\ state' = MigrationState
    /\ crashed' = TRUE
    /\ last' = "kill_in_download"
    /\ i' = 0
    /\ opts' = NoOpts
    /\ loaded' = FALSE
    /\ streak' = 0
    /\ UNCHANGED << products, call, probe, disk, run, mapping_file,
                    final_file, exit_code, env, failedSaved >>

(* Live runs at the level of the adapter calls, with a process that can    *)
(* be terminated while a download is written.                              *)
NextDownloads ==
    \/ NextAdapter
    \/ KillInDownload

SpecDownloads == InitAdapter /\ [][NextDownloads]_vars

(* One run of any mode at the level of the adapter calls, started on what *)
(* an earlier run left as snapshot: nothing, a file cut short, or the      *)
(* snapshot of a run over the one row RowA whose upload failed. A run of   *)
(* migrate() is one sequential process with no wait on another one: once   *)
(* in the loop it goes on with its next step, so the steps of a run are    *)
(* weakly fair.                                                            *)
EarlierSnapshots ==
    {NoFile, Partial,
     mark_failed(set_total([state |-> MigrationState, disk |-> NoFile], 1),
                 "cdn/a.png", <<message>>, Metadata(RowA)).disk}

InitRun ==
    /\ products \in AdapterInputs
    /\ disk \in EarlierSnapshots
    /\ state = MigrationState
    /\ pc = "idle"
    /\ i = 0
    /\ opts = NoOpts
    /\ run = 0
    /\ loaded = FALSE
    /\ mapping_file = [kind |-> "none"]
    /\ final_file = [kind |-> "none"]
    /\ exit_code = 0
    /\ env = "ok"
    /\ call = NoCall
    /\ probe = NoProbe
    /\ downloads = NoDownloads
    /\ adapterRuns = {}
    /\ failedSaved = FailedOn(disk)
    /\ crashed = FALSE
    /\ last = "none"
    /\ streak = 0

NextRun ==
    \/ \E resume \in BOOLEAN, dry_run \in BOOLEAN, batch_size \in 0..MaxBatch,
          upload \in BOOLEAN :
          run = 0 /\ StartRun(resume, dry_run, batch_size, upload)
    \/ Fetch
    \/ Validate
    \/ Upload
    \/ UploadFromUrl
    \/ Record
    \/ PassWithoutCall
    \/ Finish

RunSteps ==
    Fetch \/ Validate \/ Upload \/ UploadFromUrl \/ Record
        \/ PassWithoutCall \/ Finish

SpecRun == InitRun /\ [][NextRun]_vars /\ WF_vars(RunSteps)

(* ---------------------- functions on their own ------------------------- *)
ProbeFrame ==
    UNCHANGED << products, downloads, failedSaved, call, disk, state, pc, i,
                 opts, run, loaded, mapping_file, final_file, exit_code, env,
                 adapterRuns, crashed, last, streak >>

InitProbe(args) ==
    /\ products = <<>>
    /\ disk = NoFile
    /\ state = MigrationState
    /\ pc = "idle"
    /\ i = 0
    /\ opts = NoOpts
    /\ run = 0
    /\ loaded = FALSE
    /\ mapping_file = [kind |-> "none"]
    /\ final_file = [kind |-> "none"]
    /\ exit_code = 0
    /\ env = "ok"
    /\ call = NoCall
    /\ probe \in {[fn |-> "none", arg |-> a] : a \in args}
    /\ downloads = NoDownloads
    /\ adapterRuns = {}
    /\ failedSaved = {}
    /\ crashed = FALSE
    /\ last = "none"
    /\ streak = 0

(* get_image_column over rows of recognized and unrecognized columns with  *)
(* empty and non-empty cells                                               *)
ColumnNames == {"Image Link", "image_link", "URL", "IMAGE LINK", "Name"}
CellValues == {"", "cdn/a.png", "cdn/b.png"}
ColumnRows == UNION {[D -> CellValues] : D \in SUBSET ColumnNames}

GetImageColumn ==
    /\ probe.fn = "none"
    /\ probe' = [fn |-> "get_image_column", arg |-> probe.arg,
                 ret |-> get_image_column(probe.arg)]
    /\ ProbeFrame

InitColumns == InitProbe(ColumnRows)
NextColumns == GetImageColumn
SpecColumns == InitColumns /\ [][NextColumns]_vars

(* read_input_csv over input files.  A file is missing, present but not    *)
(* readable, or a sequence of buffer chunks; a chunk holds whole rows and  *)
(* its bytes are plain ASCII, valid multi-byte UTF-8, or single bytes      *)
(* above 0x7f that are not valid UTF-8.                                    *)
encodings == <<"utf-8-sig", "utf-8", "latin-1", "cp1252">>
ByteKinds == {"ascii", "utf8", "high"}
Chunks == [rows : 1..MaxChunkRows, bytes : ByteKinds]
Files ==
    {[kind |-> "missing"], [kind |-> "unreadable"]} \cup
    {[kind |-> "text", chunks |-> c] :
        c \in UNION {[1..n -> Chunks] : n \in 1..MaxChunks}}

(* the text the bytes of a chunk decode to, or "error" *)
decode(bytes, encoding) ==
    IF bytes = "ascii" THEN "plain"
    ELSE IF encoding \in {"utf-8-sig", "utf-8"}
    THEN IF bytes = "utf8" THEN "accented" ELSE "error"
    ELSE IF bytes = "utf8" THEN "mojibake" ELSE "accented"

RowsOfChunk(c, j, encoding) ==
    [r \in 1..c.rows |-> [id |-> <<j, r>>, text |-> decode(c.bytes, encoding)]]

(* the rows the for loop appends before the reader stops: those of the     *)
(* chunks ahead of the first one that does not decode                      *)
RECURSIVE ReadChunks(_, _, _)
ReadChunks(chunks, j, encoding) ==
    IF j > Len(chunks) THEN [ok |-> TRUE, rows |-> <<>>]
    ELSE IF decode(chunks[j].bytes, encoding) = "error"
    THEN [ok |-> FALSE, rows |-> <<>>]
    ELSE LET rest == ReadChunks(chunks, j + 1, encoding)
         IN  [ok |-> rest.ok,
              rows |-> RowsOfChunk(chunks[j], j, encoding) \o rest.rows]

(* the for loop over the encodings: products is created once, ahead of it *)
RECURSIVE TryEncodings(_, _, _)
TryEncodings(file, k, rows) ==
    IF k > Len(encodings) THEN [raised |-> "ValueError", rows |-> <<>>]
    ELSE IF file.kind = "unreadable" THEN TryEncodings(file, k + 1, rows)
    ELSE LET r == ReadChunks(file.chunks, 1, encodings[k])
         IN  IF r.ok THEN [raised |-> "none", rows |-> rows \o r.rows]
             ELSE TryEncodings(file, k + 1, rows \o r.rows)

read_input_csv(file) ==
    IF file.kind = "missing"
    THEN [raised |-> "FileNotFoundError", rows |-> <<>>]
    ELSE TryEncodings(file, 1, <<>>)

ReadInputCsv ==
    /\ probe.fn = "none"
    /\ probe' = [fn |-> "read_input_csv", arg |-> probe.arg,
                 ret |-> read_input_csv(probe.arg)]
    /\ ProbeFrame

InitReader == InitProbe(Files)
NextReader == ReadInputCsv
SpecReader == InitReader /\ [][NextReader]_vars

(* ------------------------------- claims -------------------------------- *)
CurrentRow == products[i]
InLoopBody == pc = "loop" /\ i <= Limit(opts, products)
InProcessedUrls(url) ==
    \E k \in 1..Len(state.processed_urls) : state.processed_urls[k] = url
SuccessRecords(mappings) ==
    Cardinality({k \in 1..Len(mappings) : mappings[k].status = "success"})
PersistedMappings == IF disk.kind = "file" THEN disk.data.mappings ELSE <<>>
Unflushed == SuccessRecords(state.mappings) - SuccessRecords(PersistedMappings)
SnapshotReflectsState ==
    /\ disk.kind = "file"
    /\ disk.data.mappings = state.mappings
    /\ disk.data.processed_count = state.processed_count
    /\ disk.data.success_count = state.success_count
    /\ disk.data.failed_count = state.failed_count
    /\ disk.data.skipped_count = state.skipped_count
LoadAfterCrash == load_state([state |-> MigrationState, disk |-> disk])
PairwiseDistinctRows ==
    \A j, k \in 1..Len(products) : products[j] = products[k] => j = k

(* C1: over an initial run and later runs with resume=True, none of them   *)
(* killed, the adapter handles each source reference in at most one run.   *)
C1_ExactlyOnceAcrossRuns ==
    ~crashed => \A p, q \in adapterRuns : p[1] = q[1] => p[2] = q[2]

(* C2: a loop pass over a row whose image reference is already in          *)
(* processed_urls changes neither the counters, processed_urls, mappings   *)
(* nor the snapshot, and makes no adapter call.                            *)
C2_AlreadyProcessedIsNoOp ==
    [][ ( /\ InLoopBody
          /\ i' = i + 1
          /\ get_image_column(CurrentRow) # None
          /\ InProcessedUrls(get_image_column(CurrentRow)) )
        => (state' = state /\ disk' = disk /\ adapterRuns' = adapterRuns) ]_vars

C2_Witness == last = "already" /\ state.processed_count >= 1

(* C3: processed_count = success_count + failed_count + skipped_count in   *)
(* every state of a fresh, reset or reloaded tracker.                      *)
C3_CounterInvariant ==
    state.processed_count =
        state.success_count + state.failed_count + state.skipped_count

C3_Witness ==
    /\ loaded
    /\ state.success_count >= 1
    /\ state.failed_count >= 1
    /\ state.skipped_count >= 1

(* C4: processed_count <= total_items in every state of an engine run,     *)
(* resumed runs included.                                                  *)
C4_ProcessedAtMostTotal == state.processed_count <= state.total_items

C6_BoundedLoss == Unflushed <= AutoSaveInterval - 1

(* C7: when migrate() returns after the loop, the snapshot reflects every  *)
(* outcome recorded during the run.                                        *)
C7_PersistedOnCompletion == last = "finish" => SnapshotReflectsState

C9_SaveIsCrashAtomic == disk.kind # "partial"

(* C10: a run with resume=True that loaded a snapshot of the same input    *)
(* ends with processed_count equal to the number of input rows (stated for *)
(* a run without batch limit over pairwise distinct rows).                 *)
C10_ResumeEndsAtTotal ==
    ( /\ last = "finish"
      /\ opts.resume /\ loaded
      /\ opts.batch_size = 0
      /\ PairwiseDistinctRows )
    => state.processed_count = Len(products)

HasDuplicate(seq) == \E j, k \in 1..Len(seq) : j # k /\ seq[j] = seq[k]
FreshFields(s) ==
    /\ s.processed_count = 0 /\ s.success_count = 0
    /\ s.failed_count = 0 /\ s.skipped_count = 0
    /\ s.processed_urls = <<>> /\ s.failed_items = <<>> /\ s.mappings = <<>>
SaveThenLoad ==
    load_state([state |-> MigrationState, disk |-> save_state(T).disk])
MappingRows == IF mapping_file.kind = "file" THEN mapping_file.rows ELSE <<>>
ConfigError == env \in {"no_creds", "no_conn"}
FinishStep == pc = "loop" /\ pc' = "done"

C12_LoadFalseIsFresh == last = "load_false" => FreshFields(state)

(* C13: a loop pass over a row without an image reference adds one to      *)
(* skipped_count and processed_count and nothing to mappings, failed_items *)
(* or failed_count; such a row never has a record in mappings or in the    *)
(* mapping file, and its row of the reconciled file carries the sentinel.  *)
C13_SkipAsymmetry ==
    /\ [][ (InLoopBody /\ i' = i + 1 /\ get_image_column(CurrentRow) = None)
           => /\ state'.skipped_count = state.skipped_count + 1
              /\ state'.processed_count = state.processed_count + 1
              /\ state'.failed_count = state.failed_count
              /\ state'.success_count = state.success_count
              /\ state'.mappings = state.mappings
              /\ state'.failed_items = state.failed_items ]_vars
    /\ [](\A k \in 1..Len(products) :
            get_image_column(products[k]) = None =>
              /\ \A j \in 1..Len(state.mappings) :
                    state.mappings[j].old_url # str(products[k])
              /\ \A j \in 1..Len(MappingRows) :
                    MappingRows[j].old_url # str(products[k])
              /\ final_file.kind = "file" =>
                    final_file.rows[k].new_image_link = Sentinel)

C13_Witness ==
    /\ last = "finish"
    /\ state.skipped_count >= 1
    /\ state.success_count >= 1
    /\ final_file.kind = "file"
    /\ \E k \in 1..Len(products) :
          /\ get_image_column(products[k]) = None
          /\ final_file.rows[k].new_image_link = Sentinel

(* C14: processed_urls holds no entry twice (stated for inputs of pairwise *)
(* distinct rows).                                                         *)
C14_NoDuplicateProcessedUrls ==
    PairwiseDistinctRows => ~HasDuplicate(state.processed_urls)

(* C15: a loop pass whose item raises appends exactly one failed record    *)
(* for that item and moves on to the next row; the loop ends only after    *)
(* the last row of the batch-limited list.                                 *)
C15_BadItemNeverHalts ==
    /\ [][ (InLoopBody /\ i' = i + 1 /\ last' = "failed")
           => /\ pc' = "loop"
              /\ state'.failed_count = state.failed_count + 1
              /\ state'.mappings =
                    Append(state.mappings,
                           state'.mappings[Len(state'.mappings)])
              /\ state'.mappings[Len(state'.mappings)].status = "failed"
              /\ state'.mappings[Len(state'.mappings)].old_url =
                    get_image_column(CurrentRow)
              /\ state'.failed_items =
                    Append(state.failed_items,
                           state'.mappings[Len(state'.mappings)]) ]_vars
    /\ [](last = "finish" => i = Limit(opts, products) + 1)

C15_Witness ==
    /\ last = "finish"
    /\ ~loaded
    /\ Len(state.mappings) >= 2
    /\ state.mappings[1].status = "failed"
    /\ state.mappings[1].error = <<"Unexpected error: ", message>>
    /\ state.mappings[2].status = "success"

(* C16: migrate() returns 0 exactly when failed_count, failures loaded     *)
(* from the snapshot included, is 0 at the end of the run, and 1 on a      *)
(* configuration, connection or input error.                               *)
C16_ExitCode ==
    /\ last = "finish" => exit_code = (IF state.failed_count = 0 THEN 0 ELSE 1)
    /\ last \in {"abort_config", "abort_input"} => exit_code = 1

C16_Witness ==
    /\ last = "finish"
    /\ loaded
    /\ exit_code = 1
    /\ state.failed_count = disk.data.failed_count

(* C17: a live run with a missing credential or a failing connection test  *)
(* returns before the tracker exists: no adapter call, snapshot, mapping   *)
(* file and reconciled file untouched; a dry run never aborts on it.       *)
C17_ConfigErrorAborts ==
    /\ [][ (CanStart /\ run' = run + 1 /\ env' \in {"no_creds", "no_conn"}
            /\ ~opts'.dry_run)
           => /\ last' = "abort_config"
              /\ pc' = "done"
              /\ disk' = disk
              /\ adapterRuns' = adapterRuns
              /\ mapping_file' = mapping_file
              /\ final_file' = final_file
              /\ FreshFields(state') ]_vars
    /\ []((ConfigError /\ ~opts.dry_run) => last = "abort_config")
    /\ []((ConfigError /\ opts.dry_run) =>
            /\ last # "abort_config"
            /\ \A p \in adapterRuns : p[2] # run)

C17_Witness ==
    /\ last = "abort_config"
    /\ env = "no_conn"
    /\ disk.kind = "file"
    /\ mapping_file.kind = "file"

(* C18: the reconciled file has one row per input row, in order, whose     *)
(* appended value is the destination URL of the success record of the      *)
(* reference get_image_column extracts from the row, or the sentinel when  *)
(* there is none.                                                          *)
C18_ReconciledByExtractedReference ==
    (last = "finish" /\ env # "no_merge") =>
        /\ final_file.kind = "file"
        /\ Len(final_file.rows) = Len(products)
        /\ \A k \in 1..Len(products) :
              /\ final_file.rows[k].row = products[k]
              /\ final_file.rows[k].new_image_link =
                    Lookup(state.mappings, get_image_column(products[k]))

(* C19: after the loop of any run the mapping file holds exactly the       *)
(* records of mappings, in order.                                          *)
C19_MappingFileMatchesMappings == last = "finish" => MappingRows = state.mappings

(* C20: a failing reconciliation leaves the tracker state, the snapshot    *)
(* and the mapping file just written as they are, and the exit code is     *)
(* still decided by failed_count alone.                                    *)
C20_ReconciliationFailureIsCaught ==
    [][ (FinishStep /\ env = "no_merge")
        => /\ state' = state
           /\ disk' = disk
           /\ mapping_file' = write_mapping_csv(state.mappings, mapping_file)
           /\ exit_code' = (IF state.failed_count = 0 THEN 0 ELSE 1)
           /\ last' = "finish" ]_vars

C20_Witness ==
    /\ last = "finish"
    /\ env = "no_merge"
    /\ exit_code = 0
    /\ mapping_file.kind = "file"
    /\ final_file.kind # "file"

AdapterPaths == {"download_image", "upload_image", "upload_from_url"}
TransientEvents == {"request_error", "network"}
NonTransientEvents == {"not_image", "empty", "rejected", "missing_file"}
RecognizedClasses == {"DownloadError", "CloudinaryUploadError"}

(* C21: an adapter call on any of the three paths whose attempts all meet  *)
(* a transient error is made MAX_RETRIES times before the engine sees it   *)
(* fail.                                                                   *)
C21_TransientRetried ==
    (/\ call.stage = "raised"
     /\ call.fn \in AdapterPaths
     /\ \A k \in 1..Len(call.events) : call.events[k] \in TransientEvents)
    => Len(call.events) = MAX_RETRIES

(* C22: an adapter call that fails on non-transient errors is attempted    *)
(* exactly once.                                                           *)
C22_NonTransientOnce ==
    (/\ call.stage = "raised"
     /\ call.fn \in AdapterPaths
     /\ \A k \in 1..Len(call.events) : call.events[k] \in NonTransientEvents)
    => Len(call.events) = 1

RecognizedNonEmpty(row) ==
    {k \in 1..Len(possible_names) :
        possible_names[k] \in DOMAIN row /\ row[possible_names[k]] # ""}
(* C23: get_image_column returns the value of the first name of            *)
(* possible_names that the row holds with a non-empty value, None when     *)
(* there is none.                                                          *)
C23_FirstNonEmptyRecognized ==
    probe.fn = "get_image_column" =>
        LET hits == RecognizedNonEmpty(probe.arg)
        IN  probe.ret =
              IF hits = {} THEN None
              ELSE probe.arg[possible_names[
                       CHOOSE k \in hits : \A j \in hits : k <= j]]

C23_Witness ==
    /\ probe.fn = "get_image_column"
    /\ "Image Link" \in DOMAIN probe.arg
    /\ probe.arg["Image Link"] = ""
    /\ "IMAGE LINK" \in DOMAIN probe.arg
    /\ probe.arg["IMAGE LINK"] = "cdn/a.png"
    /\ "URL" \in DOMAIN probe.arg
    /\ probe.ret = "cdn/b.png"

FileRowIds(file) ==
    LET RECURSIVE Ids(_)
        Ids(j) == IF j > Len(file.chunks) THEN <<>>
                  ELSE [r \in 1..file.chunks[j].rows |-> <<j, r>>] \o Ids(j + 1)
    IN  Ids(1)
Decodable(file) ==
    /\ file.kind = "text"
    /\ \E k \in 1..Len(encodings) :
          \A j \in 1..Len(file.chunks) :
              decode(file.chunks[j].bytes, encodings[k]) # "error"
(* C24: read_input_csv returns each row of the file exactly once, in file  *)
(* order, when one of the encodings decodes the whole file, and raises     *)
(* only when none does.                                                    *)
C24_EachRowOnce ==
    probe.fn = "read_input_csv" =>
        IF Decodable(probe.arg)
        THEN /\ probe.ret.raised = "none"
             /\ [k \in 1..Len(probe.ret.rows) |-> probe.ret.rows[k].id]
                    = FileRowIds(probe.arg)
        ELSE probe.ret.raised # "none"

(* C25: a loop pass of a dry run over a row whose image reference is not   *)
(* yet processed makes no adapter call and appends a success record with   *)
(* the placeholder URL and the identifier derived from the reference; no   *)
(* adapter call is ever made in a dry run.                                 *)
C25_DryRunCallsNothing ==
    /\ [][ (/\ InLoopBody
            /\ opts.dry_run
            /\ i' = i + 1
            /\ get_image_column(CurrentRow) # None
            /\ ~InProcessedUrls(get_image_column(CurrentRow)))
           => LET url == get_image_column(CurrentRow)
                  id == extract_image_id_from_path(url)
                  rec == state'.mappings[Len(state'.mappings)]
              IN  /\ adapterRuns' = adapterRuns
                  /\ state'.mappings = Append(state.mappings, rec)
                  /\ state'.success_count = state.success_count + 1
                  /\ \E k \in 1..Len(state'.processed_urls) :
                        state'.processed_urls[k] = url
                  /\ rec.status = "success"
                  /\ rec.old_url = url
                  /\ rec.new_url = sample_url(id)
                  /\ rec.cloudflare_image_id = <<id>> ]_vars
    /\ [](opts.dry_run => \A p \in adapterRuns : p[2] # run)

C25_Witness ==
    /\ last = "finish"
    /\ opts.dry_run
    /\ env = "no_creds"
    /\ downloads = NoDownloads
    /\ adapterRuns = {}
    /\ failedSaved = {}
    /\ Len(state.mappings) >= 2
    /\ state.mappings[2].new_url = sample_url("u")

(* C26: a run started without resume begins from the state reset() leaves: *)
(* counters 0, processed_urls, failed_items and mappings empty, and no     *)
(* snapshot file, whatever snapshot an earlier run left.                   *)
C26_FreshRunStartsEmpty ==
    [][ (run' = run + 1 /\ pc' = "loop" /\ ~opts'.resume)
        => (FreshFields(state') /\ disk' = NoFile) ]_vars

C26_Witness ==
    /\ last = "start"
    /\ ~opts.resume
    /\ run = 2
    /\ disk = NoFile
    /\ FreshFields(state)
    /\ mapping_file.kind = "file"
    /\ \E k \in 1..Len(mapping_file.rows) : mapping_file.rows[k].status = "failed"

(* C27: a mark_success call saves the snapshot if and only if              *)
(* success_count after the call is a multiple of 10.                       *)
C27_SaveOnTenthSuccess ==
    last = "success" =>
        (SnapshotReflectsState <=> state.success_count % AutoSaveInterval = 0)

(* C28: mappings never holds two records with the same old_url.            *)
C28_OneRecordPerReference ==
    \A j, k \in 1..Len(state.mappings) :
        state.mappings[j].old_url = state.mappings[k].old_url => j = k

C28_Witness ==
    /\ last = "finish"
    /\ loaded
    /\ ~PairwiseDistinctRows
    /\ Len(state.mappings) = 2

FailedRecords(mappings) ==
    LET RECURSIVE Sel(_)
        Sel(k) == IF k > Len(mappings) THEN <<>>
                  ELSE IF mappings[k].status = "failed"
                       THEN <<mappings[k]>> \o Sel(k + 1)
                       ELSE Sel(k + 1)
    IN  Sel(1)
(* C29: failed_items is the subsequence of the failed records of mappings, *)
(* its length is failed_count, the number of success records is            *)
(* success_count, and within a run mappings only grows at its end.         *)
C29_MappingsConsistent ==
    /\ [](/\ state.failed_items = FailedRecords(state.mappings)
          /\ Len(state.failed_items) = state.failed_count
          /\ SuccessRecords(state.mappings) = state.success_count)
    /\ [][ (pc = "loop" /\ pc' # "idle")
           => /\ Len(state'.mappings) >= Len(state.mappings)
              /\ SubSeq(state'.mappings, 1, Len(state.mappings))
                    = state.mappings ]_vars

C29_Witness ==
    /\ last = "success"
    /\ loaded
    /\ Len(state.mappings) = 2
    /\ state.mappings[1].status = "failed"
    /\ state.failed_items = <<state.mappings[1]>>

(* C30: when the last error of an item's fetch/publish is a DownloadError  *)
(* or CloudinaryUploadError, after exhausted retries included, the failed  *)
(* record carries that error's message, not the 'Unexpected error: ' text. *)
C30_RecognizedErrorMessage ==
    [][ (/\ call.stage = "raised"
         /\ call.cause \in RecognizedClasses
         /\ i' = i + 1)
        => /\ last' = "failed"
           /\ state'.mappings[Len(state'.mappings)].error = <<message>> ]_vars

(* C32: a loop pass of a run with resume=True makes no adapter call for a  *)
(* reference whose failed record was persisted since the last reset.       *)
C32_FailedNotRetriedOnResume ==
    [][ (pc = "loop" /\ opts.resume /\ adapterRuns' # adapterRuns)
        => get_image_column(CurrentRow) \notin failedSaved ]_vars

(* C33: a run that aborts on an unreadable input file leaves the snapshot  *)
(* file as it was, with and without resume.                                *)
C33_InputErrorKeepsSnapshot ==
    [][ last' = "abort_input" => disk' = disk ]_vars

(* C34: when a live-mode run has completed, no success record of the       *)
(* tracker's mappings carries the dry-run placeholder as destination URL.  *)
C34_LiveRunHasRealUrls ==
    (last = "finish" /\ ~opts.dry_run)
        => \A k \in 1..Len(state.mappings) :
              state.mappings[k].status = "success"
                  => state.mappings[k].new_url[1] # "[DRY RUN] "

(* C35: in fetch-then-publish mode the file handed to upload_image is the  *)
(* complete body of a successful download, never a file cut short by an    *)
(* interrupted download of an earlier attempt or run.                      *)
C35_UploadsCompleteBody ==
    (call.stage \in {"returned", "raised"} /\ call.fn = "upload_image")
        => call.file = "complete"

HasImage(row) == get_image_column(row) \notin {None, ""}
NoImageRows(n) == Cardinality({k \in 1..n : ~HasImage(products[k])})
Accounted ==
    \A k \in 1..Limit(opts, products) :
        HasImage(products[k]) => InProcessedUrls(get_image_column(products[k]))

(* C31: a run that entered the loop ends: the loop index only moves one    *)
(* item forward and stops after the batch-limited list, an adapter call    *)
(* makes a bounded number of attempts; at the end the reference of every   *)
(* item of that list with an image is in processed_urls, and each pass     *)
(* over an item without one added exactly one to skipped_count.            *)
C31_RunEndsWithEveryItemAccounted ==
    /\ (pc = "loop") ~> (pc = "done")
    /\ [][ (pc = "loop" /\ pc' = "loop")
            => /\ i' \in {i, i + 1}
               /\ i' <= Limit(opts, products) + 1
               /\ state'.skipped_count = state.skipped_count
                     + (IF i' = i + 1 /\ ~HasImage(products[i]) THEN 1 ELSE 0)
          ]_vars
    /\ [](call.stage \in {"fetched", "returned", "raised"}
            => Len(call.events) <= 2 * MAX_RETRIES)
    /\ [](last = "finish"
            => /\ i = Limit(opts, products) + 1
               /\ Accounted
               /\ ~opts.resume
                    => state.skipped_count
                         = NoImageRows(Limit(opts, products)))

C31_Witness ==
    /\ last = "finish"
    /\ Len(products) = 2
    /\ state.skipped_count = 1
    /\ state.failed_count = 1
    /\ call = NoCall

====
